---- MODULE Spec2Model ----
(***************************************************************************)
(* The cache-backed generation pipeline of the School Research Assistant:  *)
(* SimpleCache and SchoolIntelligenceService (school_intelligence_service) *)
(* on top of ConversationChain.generate / agenerate (conversation_chain).  *)
(***************************************************************************)
EXTENDS Integers, Sequences, FiniteSets, TLC

(* ------------------------------ bounds --------------------------------- *)
\* longest conversation_starters array a model reply carries
MaxItems == 3
\* the wall clock is observed every TickHours hours, up to MaxTime hours
TickHours == 12
MaxTime == 36
\* async requests that may be suspended in their model call at once
MaxTasks == 1

(* ------------------------- config_v2.py -------------------------------- *)
\* threads inside SimpleCache.set at the same time
MaxWriters == 2
\* revisions of a school's row in the data source, and reads of the source
MaxRevisions == 2
MaxReads == 3
\* the largest num_starters a request asks for
MaxCount == 3

CACHE_TTL_HOURS == 24

(* ------------------------- the stored schools -------------------------- *)
\* the records the DataLoader holds, by school_name
SchoolNames == {"Thomas Coram Centre", "Argyle Primary"}
\* a name no stored school has
UnknownName == "No Such School"
RequestNames == SchoolNames \cup {UnknownName}
\* School.urn of the stored record
Urn(n) == IF n = "Thomas Coram Centre" THEN "100005" ELSE "100006"
Urns == {Urn(n) : n \in SchoolNames}

(* ----------------- models_v2: ConversationStarter ---------------------- *)
Absent == "<absent>"
NoneVal == "None"
\* raw item dicts as they come out of the model's JSON; relevance_score in tenths
RawAgency == [topic |-> "agency spend", detail |-> "d1", source |-> Absent, relevance_score |-> 9]
RawOfsted == [topic |-> "ofsted", detail |-> "d2", source |-> "ofsted report", relevance_score |-> 5]
RawNoDetail == [topic |-> "finance", detail |-> Absent, source |-> Absent, relevance_score |-> 5]
RawItems == {RawAgency, RawOfsted, RawNoDetail}

\* does ConversationStarter(**d) validate
ValidStarter(d) ==
    /\ d.topic # Absent
    /\ d.detail # Absent
    /\ d.relevance_score \in 0..10

\* ConversationStarter(**d) for a dict that validates
ConversationStarter(d) ==
    [cls |-> "ConversationStarter", topic |-> d.topic, detail |-> d.detail,
     source |-> IF d.source = Absent THEN NoneVal ELSE d.source,
     relevance_score |-> d.relevance_score]

\* ConversationStarter.model_dump()
model_dump(s) ==
    [topic |-> s.topic, detail |-> s.detail, source |-> s.source,
     relevance_score |-> s.relevance_score]

AllValid(ds) == \A i \in 1..Len(ds) : ValidStarter(ds[i])
\* [ConversationStarter(**s) for s in ds], defined when AllValid(ds)
Starters(ds) == [i \in 1..Len(ds) |-> ConversationStarter(ds[i])]
\* a dump that loses the first starter
DumpAllButFirst(ss) == [i \in 1..(Len(ss) - 1) |-> model_dump(ss[i + 1])]
\* [s.model_dump() for s in starters]
DumpAll(ss) == [i \in 1..Len(ss) |-> model_dump(ss[i])]

RECURSIVE SeqsUpTo(_, _)
SeqsUpTo(S, k) ==
    IF k = 0 THEN {<<>>}
    ELSE LET shorter == SeqsUpTo(S, k - 1)
         IN  shorter \cup {Append(q, x) : q \in {r \in shorter : Len(r) = k - 1}, x \in S}

RawLists == SeqsUpTo(RawItems, MaxItems)

(* -------------------- the model's reply to chain.invoke ----------------- *)
\* chain.invoke either raises (backend or network error, authentication
\* failure, output the JsonOutputParser cannot parse) or returns the parsed
\* JSON object; its conversation_starters key is absent, holds something that
\* is no array of objects, or holds an array of item dicts
RaiseReply == [kind |-> "raise", shape |-> "absent", items |-> <<>>,
               summary |-> Absent, sales_priority |-> Absent]
JsonReply(shape, items, summary, prio) ==
    [kind |-> "json", shape |-> shape, items |-> items,
     summary |-> summary, sales_priority |-> prio]
Summaries == {Absent, "one sentence"}
\* the prompt asks for HIGH, MEDIUM or LOW; nothing holds the model to it
ReplyPriorities == {Absent, "HIGH", "LOW", "UNKNOWN"}
Replies ==
    {RaiseReply}
    \cup {JsonReply(sh, <<>>, s, p) : sh \in {"absent", "malformed"}, s \in Summaries, p \in ReplyPriorities}
    \cup {JsonReply("array", ds, s, p) : ds \in RawLists, s \in Summaries, p \in ReplyPriorities}
\* the replies the service's requests draw: the service reads only
\* response.conversation_starters, so one summary and one priority do
ServiceReplies ==
    {RaiseReply}
    \cup {JsonReply("absent", <<>>, "one sentence", "HIGH")}
    \cup {JsonReply("array", ds, "one sentence", "HIGH") :
            ds \in {<<>>, <<RawAgency>>, <<RawOfsted, RawAgency>>, <<RawAgency, RawNoDetail>>}}

(* ----------------- ConversationChain.generate / agenerate -------------- *)
Response(starters, summary, prio) ==
    [raised |-> FALSE, conversation_starters |-> starters,
     summary |-> summary, sales_priority |-> prio]
\* an exception leaving the call
Raised == [raised |-> TRUE, conversation_starters |-> <<>>,
           summary |-> NoneVal, sales_priority |-> NoneVal]

\* result.get("conversation_starters", [])
StartersField(reply) == IF reply.shape = "absent" THEN <<>> ELSE reply.items
\* does the try block of generate / agenerate raise on this reply
ParseRaises(reply) ==
    \/ reply.kind = "raise"
    \/ reply.shape = "malformed"
    \/ ~AllValid(StartersField(reply))

\* a generate whose except branch lets the exception go on to the caller
generate_reraising(reply) ==
    IF ParseRaises(reply)
    THEN Raised
    ELSE Response(Starters(StartersField(reply)),
                  IF reply.summary = Absent THEN NoneVal ELSE reply.summary,
                  IF reply.sales_priority = Absent THEN "MEDIUM" ELSE reply.sales_priority)

\* ConversationChain.generate(school, num_starters), given what chain.invoke does
generate(reply) ==
    IF ParseRaises(reply)
    THEN Response(<<>>, "Error generating insights", "UNKNOWN")
    ELSE Response(Starters(StartersField(reply)),
                  IF reply.summary = Absent THEN NoneVal ELSE reply.summary,
                  IF reply.sales_priority = Absent THEN "MEDIUM" ELSE reply.sales_priority)

\* an agenerate whose except branch lets the exception go on to the caller
agenerate_reraising(reply) ==
    IF ParseRaises(reply)
    THEN Raised
    ELSE Response(Starters(StartersField(reply)),
                  IF reply.summary = Absent THEN NoneVal ELSE reply.summary,
                  IF reply.sales_priority = Absent THEN "MEDIUM" ELSE reply.sales_priority)

\* ConversationChain.agenerate(school, num_starters), given what chain.ainvoke does
agenerate(reply) ==
    IF ParseRaises(reply)
    THEN Response(<<>>, "Error", "UNKNOWN")
    ELSE Response(Starters(StartersField(reply)),
                  IF reply.summary = Absent THEN NoneVal ELSE reply.summary,
                  IF reply.sales_priority = Absent THEN "MEDIUM" ELSE reply.sales_priority)

(* ------------------------------- state --------------------------------- *)
VARIABLES
    now,        \* datetime.now(), in hours
    cache,      \* the cache directory: the file of each URN's key
    starters,   \* School.conversation_starters of each stored record
    chain,      \* SchoolIntelligenceService.conversation_chain is not None
    pending,    \* async requests suspended in chain.ainvoke
    enabled,    \* SimpleCache.enabled (ENABLE_CACHE)
    feature,    \* FEATURES["conversation_starters"]
    loaded,     \* the names DataLoader._schools_by_name holds
    last,       \* the request that returned last: what it was and how it ended
    got,        \* the SimpleCache call that returned last, and what it returned
    gen,        \* a generate / agenerate call: its reply and what it returned
    writers,    \* threads inside SimpleCache.set: where each is and what it writes
    loader,     \* DataLoader._schools_cache and _schools_by_urn, and its reads
    csv         \* the school rows the data source holds now

vars == <<now, cache, starters, chain, pending, enabled, feature, loaded, last, got, gen,
          writers, loader, csv>>
\* the configuration and the stored schools, which only the DataLoader's own
\* calls change, and the threads inside SimpleCache.set
config == <<enabled, feature, loaded>>
aside == <<writers, loader, csv>>

(* ------------------------------ DataLoader ------------------------------ *)
\* the rows of a data source, of _schools_cache or of an index: for each
\* school name the revision of its row, 0 where there is none
Rows == [SchoolNames -> 0..MaxRevisions]
NoRows == [n \in SchoolNames |-> 0]
RowsOf(names) == [n \in SchoolNames |-> IF n \in names THEN 1 ELSE 0]
Names(rows) == {n \in SchoolNames : rows[n] > 0}
\* {s.urn: s for s in schools}
ByUrn(rows) == [u \in Urns |-> rows[CHOOSE n \in SchoolNames : Urn(n) = u]]

\* DataLoader.__init__: no list, two empty indexes
NotLoaded ==
    [is_loaded |-> FALSE, schools |-> NoRows, by_name |-> NoRows,
     by_urn |-> ByUrn(NoRows), reads |-> 0]

\* a load that takes an empty list for no list
LoadUnlessEmpty(l, src, readok) ==
    IF l.is_loaded /\ l.schools # NoRows THEN l
    ELSE IF ~readok THEN [l EXCEPT !.reads = @ + 1]
    ELSE [is_loaded |-> TRUE, schools |-> src, by_name |-> src,
          by_urn |-> ByUrn(src), reads |-> l.reads + 1]

\* DataLoader.load(): the loader after the call; readok: reading the source
\* does not raise (a source that is not found reads as no rows)
Load(l, src, readok) ==
    IF l.is_loaded THEN l
    ELSE IF ~readok THEN [l EXCEPT !.reads = @ + 1]
    ELSE [is_loaded |-> TRUE, schools |-> src, by_name |-> src,
          by_urn |-> ByUrn(src), reads |-> l.reads + 1]
\* load() leaves by an exception
LoadRaises(l, readok) == ~l.is_loaded /\ ~readok

(* ----------------------------- SimpleCache ----------------------------- *)
NoFile == [kind |-> "nofile"]
\* a file whose reading raises: open() or read() fails, json.load finds no
\* JSON, or a key of the record is missing
Garbage == [kind |-> "garbage"]
Entry(urn, t, dicts) ==
    [kind |-> "entry", school_urn |-> urn, cached_at |-> t, starters |-> dicts]

NoValue == [found |-> FALSE, starters |-> <<>>]
Found(dicts) == [found |-> TRUE, starters |-> dicts]

Expired(e, t) == t - e.cached_at > CACHE_TTL_HOURS

\* a get that treats an entry as expired from the moment its age is the TTL
CacheGetExpiringAtTtl(c, urn, t) ==
    IF ~enabled THEN NoValue
    ELSE IF c[urn].kind = "nofile" THEN NoValue
    ELSE IF c[urn].kind = "garbage" THEN NoValue
    ELSE IF t - c[urn].cached_at >= CACHE_TTL_HOURS THEN NoValue
    ELSE Found(c[urn].starters)

\* a get without its try / except: a file that cannot be read or parsed
\* makes the call raise
CacheGetUnguarded(c, urn, t) ==
    IF ~enabled THEN NoValue
    ELSE IF c[urn].kind = "nofile" THEN NoValue
    ELSE IF c[urn].kind = "garbage" THEN [found |-> FALSE, starters |-> <<>>, raised |-> TRUE]
    ELSE IF Expired(c[urn], t) THEN NoValue
    ELSE Found(c[urn].starters)

\* a get that does not look at SimpleCache.enabled
CacheGetIgnoringEnabled(c, urn, t) ==
    IF c[urn].kind = "nofile" THEN NoValue
    ELSE IF c[urn].kind = "garbage" THEN NoValue
    ELSE IF Expired(c[urn], t) THEN NoValue
    ELSE Found(c[urn].starters)

\* SimpleCache.get(school_urn)
CacheGet(c, urn, t) ==
    IF ~enabled THEN NoValue
    ELSE IF c[urn].kind = "nofile" THEN NoValue
    ELSE IF c[urn].kind = "garbage" THEN NoValue
    ELSE IF Expired(c[urn], t) THEN NoValue
    ELSE Found(c[urn].starters)

\* how the write of SimpleCache.set ends: done, open() raises (nothing is
\* written), or open() has truncated the file and json.dump raises
WriteOutcomes == {"ok", "open_fails", "dump_fails"}

\* a set that opens the file for exclusive creation: an existing file stays
CacheSetKeepingExisting(c, urn, ss, t, wr) ==
    IF ~enabled THEN c
    ELSE IF wr = "ok" /\ c[urn].kind = "nofile" THEN [c EXCEPT ![urn] = Entry(urn, t, DumpAll(ss))]
    ELSE c

\* a set that opens the file for appending: an existing record is extended
CacheSetAppending(c, urn, ss, t, wr) ==
    IF ~enabled THEN c
    ELSE IF wr = "ok"
    THEN [c EXCEPT ![urn] = Entry(urn, t, (IF c[urn].kind = "entry" THEN c[urn].starters ELSE <<>>)
                                          \o DumpAll(ss))]
    ELSE IF wr = "open_fails" THEN c
    ELSE [c EXCEPT ![urn] = Garbage]

\* a set that cleans up after a failed write by unlinking the file
CacheSetRemovingOnFailure(c, urn, ss, t, wr) ==
    IF ~enabled THEN c
    ELSE IF wr = "ok" THEN [c EXCEPT ![urn] = Entry(urn, t, DumpAll(ss))]
    ELSE [c EXCEPT ![urn] = NoFile]

\* the cache directory after SimpleCache.set(school_urn, starters)
CacheSet(c, urn, ss, t, wr) ==
    IF ~enabled THEN c
    ELSE IF wr = "ok" THEN [c EXCEPT ![urn] = Entry(urn, t, DumpAll(ss))]
    ELSE IF wr = "open_fails" THEN c
    ELSE [c EXCEPT ![urn] = Garbage]

\* the flag SimpleCache.set returns
CacheSetResult(wr) == enabled /\ wr = "ok"

\* `if school_urn:` in SimpleCache.clear: None and "" both select every file
Truthy(x) == x # NoneVal /\ x # ""

\* the cache directory after SimpleCache.clear(school_urn)
CacheClear(c, urn) ==
    IF Truthy(urn) THEN [c EXCEPT ![urn] = NoFile] ELSE [u \in DOMAIN c |-> NoFile]
\* the count SimpleCache.clear(school_urn) returns
CacheClearCount(c, urn) ==
    IF Truthy(urn) THEN (IF c[urn].kind # "nofile" THEN 1 ELSE 0)
    ELSE Cardinality({u \in DOMAIN c : c[u].kind # "nofile"})

\* the lists of ConversationStarter objects the service hands to SimpleCache.set
StarterLists == {Starters(ds) : ds \in {<<>>, <<RawAgency>>, <<RawOfsted, RawAgency>>}}

NoCall == [op |-> "none", urn |-> NoneVal, value |-> NoValue, flag |-> FALSE, count |-> 0]
NoGen == [variant |-> "none", reply |-> RaiseReply, response |-> Raised]

(* ------------------- SimpleCache.set, step by step --------------------- *)
Writers == 1..MaxWriters
NotWriting == [open |-> FALSE, urn |-> NoneVal, data |-> NoFile]
\* a thread between open(cache_path, 'w') and the end of its with block,
\* holding the record it built
Writing(urn, t, ss) == [open |-> TRUE, urn |-> urn, data |-> Entry(urn, t, DumpAll(ss))]
\* a file holding k units of bytes that are no JSON document
Torn(k) == [kind |-> "garbage", bytes |-> k]
\* the length of a file: a record grows with the number of its items
Bytes(f) ==
    IF f.kind = "entry" THEN 1 + Len(f.starters)
    ELSE IF f.kind = "garbage" /\ "bytes" \in DOMAIN f THEN f.bytes
    ELSE 0
\* the file after record e is written from offset 0 over content f: bytes of
\* f beyond the end of e stay
Overlay(f, e) == IF Bytes(f) > Bytes(e) THEN Torn(Bytes(f)) ELSE e

(* --------------------- SchoolIntelligenceService ----------------------- *)
\* a lookup that hands back a record for every name
ResolvesEveryName(n) == TRUE

\* DataLoader.get_school_by_name(name) finds a record
Resolves(n) == n \in loaded

ModelResult(reply) == IF ParseRaises(reply) THEN "failed" ELSE "ok"

\* a generate that calls the model a second time when the first call raised
chain_invocations_retrying(reply) == IF reply = RaiseReply THEN 2 ELSE 1

\* the chain.invoke / chain.ainvoke calls one generate / agenerate call
\* makes: the one call inside its try
chain_invocations(reply) == 1

\* how a request ended: the states of the per-request state machine, and
\* RAISED for an exception that left the request
Paths == {"NOT_FOUND", "FEATURE_OFF", "CACHE_HIT", "DONE", "DEGRADED", "RAISED"}
\* what the request's model call did: not made, returned starters, or failed
\* (generate / agenerate took its except branch); stored: the request called
\* SimpleCache.set and it returned True; invocations: the chain.invoke /
\* chain.ainvoke calls made for the request
Returned(op, n, force, path, model) ==
    [op |-> op, name |-> n, force |-> force, path |-> path, model |-> model,
     stored |-> FALSE, invocations |-> 0]
Done(op, n, force, reply, wr) ==
    [Returned(op, n, force, "DONE", ModelResult(reply))
        EXCEPT !.stored = CacheSetResult(wr), !.invocations = chain_invocations(reply)]
NoRequest == Returned("none", UnknownName, FALSE, "NOT_FOUND", "none")

\* a _get_chain that constructs a ConversationChain on every call
get_chain_constructing_anew(ch, makeok) == makeok

\* SchoolIntelligenceService._get_chain(): the chain after the call, where
\* makeok says whether ConversationChain() can be constructed
get_chain(ch, makeok) == ch \/ makeok

Idle == [busy |-> FALSE, name |-> UnknownName, force |-> FALSE]
Suspended(n, force) == [busy |-> TRUE, name |-> n, force |-> force]
Tasks == 1..MaxTasks

\* a feature check that takes the flag's default whatever FEATURES holds
feature_enabled_by_default == TRUE

\* FEATURES.get("conversation_starters", True)
feature_enabled == feature

\* a cache check that does not look at force_refresh
cached_starters_ignoring_force(force, urn) == CacheGet(cache, urn, now)

\* the cache check of get_school_intelligence and of its async variant: what
\* cached_starters holds (no value when the check is skipped)
cached_starters(force, urn) == IF force THEN NoValue ELSE CacheGet(cache, urn, now)

\* a check that takes every value SimpleCache.get returned for a hit
HitWhenFound(cached) == cached.found

\* `if cached_starters:`: SimpleCache.get returned a list and it is not empty
Hit(cached) == cached.found /\ cached.starters # <<>>

\* a request that hands back the records as they were loaded
KeptAsLoaded(r) ==
    [last |-> r, starters |-> [n \in SchoolNames |-> <<>>], chain |-> chain,
     sets |-> FALSE, suspended |-> FALSE]

\* a request that returns r, leaves the schools and the chain as they are
\* and does not call SimpleCache.set
Kept(r) ==
    [last |-> r, starters |-> starters, chain |-> chain,
     sets |-> FALSE, suspended |-> FALSE]

\* the cache directory after a request for n: one that reached its
\* cache.set call has passed it the starters it attached to the school
CacheAfter(run, n, wr) ==
    IF run.sets THEN CacheSet(cache, Urn(n), run.starters[n], now, wr) ELSE cache

\* the statements of get_school_intelligence, from its first to its return:
\* what it returns, what it leaves on the school and in conversation_chain,
\* and whether it calls SimpleCache.set (sets)
RunSync(n, force, makeok, reply, wr) ==
    IF ~Resolves(n)
    THEN Kept(Returned("sync", n, force, "NOT_FOUND", "none"))
    ELSE IF ~feature_enabled
    THEN Kept(Returned("sync", n, force, "FEATURE_OFF", "none"))
    ELSE LET cached == cached_starters(force, Urn(n))
         IN  IF Hit(cached)
             THEN IF AllValid(cached.starters)
                  THEN [Kept(Returned("sync", n, force, "CACHE_HIT", "none"))
                           EXCEPT !.starters = [starters EXCEPT ![n] = Starters(cached.starters)]]
                  ELSE Kept(Returned("sync", n, force, "RAISED", "none"))
             ELSE IF ~get_chain(chain, makeok)
             THEN Kept(Returned("sync", n, force, "DEGRADED", "none"))
             ELSE LET response == generate(reply)
                  IN  IF response.raised
                      THEN [Kept([Returned("sync", n, force, "DEGRADED", "failed")
                                     EXCEPT !.invocations = chain_invocations(reply)])
                               EXCEPT !.chain = get_chain(chain, makeok)]
                      ELSE [last |-> Done("sync", n, force, reply, wr),
                            starters |-> [starters EXCEPT ![n] = response.conversation_starters],
                            chain |-> get_chain(chain, makeok),
                            sets |-> TRUE,
                            suspended |-> FALSE]

\* get_school_intelligence(school_name, force_refresh, num_starters)
get_school_intelligence(n, force, makeok, reply, wr) ==
    /\ UNCHANGED <<now, pending>>
    /\ LET run == RunSync(n, force, makeok, reply, wr)
       IN  /\ starters' = run.starters
           /\ last' = run.last
           /\ chain' = run.chain
           /\ cache' = CacheAfter(run, n, wr)
    /\ UNCHANGED <<config, aside, got, gen>>

\* the statements of get_school_intelligence_async up to its await of
\* chain.agenerate; suspended: the request is waiting in that await
RunAsyncBegin(n, force, makeok) ==
    IF ~Resolves(n)
    THEN Kept(Returned("async", n, force, "NOT_FOUND", "none"))
    ELSE IF ~feature_enabled
    THEN Kept(Returned("async", n, force, "FEATURE_OFF", "none"))
    ELSE LET cached == cached_starters(force, Urn(n))
         IN  IF Hit(cached)
             THEN IF AllValid(cached.starters)
                  THEN [Kept(Returned("async", n, force, "CACHE_HIT", "none"))
                           EXCEPT !.starters = [starters EXCEPT ![n] = Starters(cached.starters)]]
                  ELSE Kept(Returned("async", n, force, "RAISED", "none"))
             ELSE IF ~get_chain(chain, makeok)
             THEN Kept(Returned("async", n, force, "DEGRADED", "none"))
             ELSE [Kept(last) EXCEPT !.chain = get_chain(chain, makeok), !.suspended = TRUE]

\* a request that joins a model call already in flight for the same school
\* instead of making its own
async_begin_single_flight(t, n, force, makeok) ==
    /\ ~pending[t].busy
    /\ UNCHANGED <<now, cache>>
    /\ LET run == IF \E u \in DOMAIN pending : pending[u].busy /\ pending[u].name = n
                  THEN Kept(Returned("async", n, force, "DEGRADED", "none"))
                  ELSE RunAsyncBegin(n, force, makeok)
       IN  /\ pending' = IF run.suspended
                         THEN [pending EXCEPT ![t] = Suspended(n, force)]
                         ELSE pending
           /\ starters' = run.starters
           /\ last' = run.last
           /\ chain' = run.chain
    /\ UNCHANGED <<config, aside, got, gen>>

\* get_school_intelligence_async up to its await of chain.agenerate
async_begin(t, n, force, makeok) ==
    /\ ~pending[t].busy
    /\ UNCHANGED <<now, cache>>
    /\ LET run == RunAsyncBegin(n, force, makeok)
       IN  /\ pending' = IF run.suspended
                         THEN [pending EXCEPT ![t] = Suspended(n, force)]
                         ELSE pending
           /\ starters' = run.starters
           /\ last' = run.last
           /\ chain' = run.chain
    /\ UNCHANGED <<config, aside, got, gen>>

\* an async variant that attaches the result and leaves the cache alone
RunAsyncEndWithoutStore(n, force, reply, wr) ==
    LET response == agenerate(reply)
    IN  IF response.raised
        THEN Kept([Returned("async", n, force, "DEGRADED", "failed")
                      EXCEPT !.invocations = chain_invocations(reply)])
        ELSE [Kept([Done("async", n, force, reply, wr) EXCEPT !.stored = FALSE])
                 EXCEPT !.starters = [starters EXCEPT ![n] = response.conversation_starters]]

\* the statements of get_school_intelligence_async from the return of
\* chain.ainvoke to its own return
RunAsyncEnd(n, force, reply, wr) ==
    LET response == agenerate(reply)
    IN  IF response.raised
        THEN Kept([Returned("async", n, force, "DEGRADED", "failed")
                      EXCEPT !.invocations = chain_invocations(reply)])
        ELSE [last |-> Done("async", n, force, reply, wr),
              starters |-> [starters EXCEPT ![n] = response.conversation_starters],
              chain |-> chain,
              sets |-> TRUE,
              suspended |-> FALSE]

\* get_school_intelligence_async from the return of chain.ainvoke on
async_end(t, reply, wr) ==
    /\ pending[t].busy
    /\ pending' = [pending EXCEPT ![t] = Idle]
    /\ UNCHANGED <<now, chain>>
    /\ LET run == RunAsyncEnd(pending[t].name, pending[t].force, reply, wr)
       IN  /\ starters' = run.starters
           /\ last' = run.last
           /\ cache' = CacheAfter(run, pending[t].name, wr)
    /\ UNCHANGED <<config, aside, got, gen>>

\* SchoolIntelligenceService.clear_cache(school_name); NoneVal: no name given
clear_cache(n) ==
    /\ cache' = IF Truthy(n)
                THEN (IF Resolves(n) THEN CacheClear(cache, Urn(n)) ELSE cache)
                ELSE CacheClear(cache, NoneVal)
    /\ UNCHANGED <<now, starters, chain, pending, config, aside, last, got, gen>>

(* ---------------------------- environment ------------------------------ *)
\* the wall clock advances
Tick ==
    /\ now + TickHours <= MaxTime
    /\ now' = now + TickHours
    /\ UNCHANGED <<cache, starters, chain, pending, config, aside, last, got, gen>>

\* what something other than SimpleCache.set leaves in a cache file: bytes
\* that are no JSON, or a well-formed record holding an item dict that
\* ConversationStarter rejects
ForeignFiles(urn, t) == {Garbage, Entry(urn, t, <<RawNoDetail>>)}
ForeignWrite(urn, f) ==
    /\ cache' = [cache EXCEPT ![urn] = f]
    /\ UNCHANGED <<now, starters, chain, pending, config, aside, last, got, gen>>

(* --------------------------- specification ----------------------------- *)
Init ==
    /\ now = 0
    /\ cache = [u \in Urns |-> NoFile]
    /\ starters = [n \in SchoolNames |-> <<>>]
    /\ chain = FALSE
    /\ pending = [t \in Tasks |-> Idle]
    /\ enabled \in BOOLEAN
    /\ feature \in BOOLEAN
    /\ loaded = {"Thomas Coram Centre"}
    /\ last = NoRequest
    /\ got = NoCall
    /\ gen = NoGen
    /\ writers = [w \in Writers |-> NotWriting]
    /\ csv = RowsOf({"Thomas Coram Centre"})
    /\ loader = Load(NotLoaded, csv, TRUE)

\* the inputs a request reads: whether ConversationChain() can be constructed
\* when no chain exists yet, the model's reply when the model is called, how
\* the cache write ends when a write is made; an input the request does not
\* read is drawn as one value
ReachesGeneration(n, force) ==
    /\ Resolves(n) /\ feature
    /\ force \/ ~CacheGet(cache, Urn(n), now).found \/ CacheGet(cache, Urn(n), now).starters = <<>>
MakeInputs(n, force) == IF ReachesGeneration(n, force) /\ ~chain THEN BOOLEAN ELSE {TRUE}
ReplyInputs(n, force, makeok) ==
    IF ReachesGeneration(n, force) /\ (chain \/ makeok) THEN ServiceReplies ELSE {RaiseReply}
WriteInputs == IF enabled THEN WriteOutcomes ELSE {"ok"}

SyncRequest ==
    \E n \in RequestNames, force \in BOOLEAN :
        \E makeok \in MakeInputs(n, force) :
            \E reply \in ReplyInputs(n, force, makeok), wr \in WriteInputs :
                get_school_intelligence(n, force, makeok, reply, wr)
AsyncBegin ==
    \E t \in DOMAIN pending, n \in RequestNames, force \in BOOLEAN :
        \E makeok \in MakeInputs(n, force) : async_begin(t, n, force, makeok)
AsyncEnd ==
    \E t \in DOMAIN pending, reply \in ServiceReplies, wr \in WriteInputs : async_end(t, reply, wr)
ClearCache == \E n \in RequestNames \cup {NoneVal} : clear_cache(n)
Foreign == \E u \in {Urn(n) : n \in loaded} : \E f \in ForeignFiles(u, now) : ForeignWrite(u, f)

Next ==
    \/ SyncRequest
    \/ AsyncBegin
    \/ AsyncEnd
    \/ ClearCache
    \/ Tick
    \/ Foreign

Spec == Init /\ [][Next]_vars

(* ------------- the service started over an existing cache -------------- *)
\* what an earlier run of the program left in the cache directory, which
\* SimpleCache.__init__ keeps: no file, or a complete record, which holds
\* no item when the model call of the request that wrote it returned none
PersistedFiles(urn) ==
    {NoFile, Entry(urn, 0, <<>>), Entry(urn, 0, DumpAll(Starters(<<RawAgency>>)))}

InitRestarted ==
    /\ now = 0
    /\ cache \in [Urns -> UNION {PersistedFiles(u) : u \in Urns}]
    /\ \A u \in Urns : cache[u] \in PersistedFiles(u)
    /\ starters = [n \in SchoolNames |-> <<>>]
    /\ chain = FALSE
    /\ pending = [t \in Tasks |-> Idle]
    /\ enabled \in BOOLEAN
    /\ feature = TRUE
    /\ loaded = {"Thomas Coram Centre"}
    /\ last = NoRequest
    /\ got = NoCall
    /\ gen = NoGen
    /\ writers = [w \in Writers |-> NotWriting]
    /\ csv = RowsOf({"Thomas Coram Centre"})
    /\ loader = Load(NotLoaded, csv, TRUE)

NextRestarted ==
    \/ SyncRequest
    \/ AsyncBegin
    \/ AsyncEnd
    \/ ClearCache
    \/ Tick
    \/ Foreign

SpecRestarted == InitRestarted /\ [][NextRestarted]_vars

(* ------------------- SimpleCache, called on its own -------------------- *)
\* a get that unlinks the file it finds expired or cannot read
cache_get_evicting(urn) ==
    /\ got' = [op |-> "get", urn |-> urn, value |-> CacheGet(cache, urn, now),
               flag |-> FALSE, count |-> 0]
    /\ cache' = IF enabled /\ cache[urn].kind # "nofile" /\ ~CacheGet(cache, urn, now).found
                THEN [cache EXCEPT ![urn] = NoFile]
                ELSE cache
    /\ UNCHANGED <<now, starters, chain, pending, config, aside, last, gen>>

\* SimpleCache.get(school_urn), called on its own
cache_get(urn) ==
    /\ got' = [op |-> "get", urn |-> urn, value |-> CacheGet(cache, urn, now),
               flag |-> FALSE, count |-> 0]
    /\ UNCHANGED <<now, cache, starters, chain, pending, config, aside, last, gen>>

cache_set(urn, ss, wr) ==
    /\ cache' = CacheSet(cache, urn, ss, now, wr)
    /\ got' = [op |-> "set", urn |-> urn, value |-> NoValue,
               flag |-> CacheSetResult(wr), count |-> 0]
    /\ UNCHANGED <<now, starters, chain, pending, config, aside, last, gen>>

cache_clear(urn) ==
    /\ cache' = CacheClear(cache, urn)
    /\ got' = [op |-> "clear", urn |-> urn, value |-> NoValue,
               flag |-> FALSE, count |-> CacheClearCount(cache, urn)]
    /\ UNCHANGED <<now, starters, chain, pending, config, aside, last, gen>>

InitCache ==
    /\ now = 0
    /\ cache = [u \in Urns |-> NoFile]
    /\ starters = [n \in SchoolNames |-> <<>>]
    /\ chain = FALSE
    /\ pending = [t \in Tasks |-> Idle]
    /\ enabled \in BOOLEAN
    /\ feature = TRUE
    /\ loaded = SchoolNames
    /\ last = NoRequest
    /\ got = NoCall
    /\ gen = NoGen
    /\ writers = [w \in Writers |-> NotWriting]
    /\ csv = RowsOf(SchoolNames)
    /\ loader = Load(NotLoaded, csv, TRUE)

CacheGetCall == \E u \in Urns : cache_get(u)
CacheSetCall == \E u \in Urns, ss \in StarterLists, wr \in WriteOutcomes : cache_set(u, ss, wr)
\* clear is called with the URN of a school (School.urn is '' for a record
\* that has none) or without one
ClearArgs == Urns \cup {"", NoneVal}
CacheClearCall == \E u \in ClearArgs : cache_clear(u)
ForeignAny == \E u \in Urns : \E f \in ForeignFiles(u, now) : ForeignWrite(u, f)

NextCache ==
    \/ CacheGetCall
    \/ CacheSetCall
    \/ CacheClearCall
    \/ Tick
    \/ ForeignAny

SpecCache == InitCache /\ [][NextCache]_vars

(* ------------------ generate / agenerate, called on their own ---------- *)
call_generate(reply) ==
    /\ gen' = [variant |-> "generate", reply |-> reply, response |-> generate(reply)]
    /\ UNCHANGED <<now, cache, starters, chain, pending, config, aside, last, got>>

call_agenerate(reply) ==
    /\ gen' = [variant |-> "agenerate", reply |-> reply, response |-> agenerate(reply)]
    /\ UNCHANGED <<now, cache, starters, chain, pending, config, aside, last, got>>

InitGen ==
    /\ now = 0
    /\ cache = [u \in Urns |-> NoFile]
    /\ starters = [n \in SchoolNames |-> <<>>]
    /\ chain = TRUE
    /\ pending = [t \in Tasks |-> Idle]
    /\ enabled = TRUE
    /\ feature = TRUE
    /\ loaded = SchoolNames
    /\ last = NoRequest
    /\ got = NoCall
    /\ gen = NoGen
    /\ writers = [w \in Writers |-> NotWriting]
    /\ csv = RowsOf(SchoolNames)
    /\ loader = Load(NotLoaded, csv, TRUE)

Generate == \E r \in Replies : call_generate(r)
AGenerate == \E r \in Replies : call_agenerate(r)

NextGen ==
    \/ Generate
    \/ AGenerate

SpecGen == InitGen /\ [][NextGen]_vars

(* ------------- two or more async requests at the same time ------------- *)
\* one task more than the service is run with elsewhere
Concurrent == 1..(MaxTasks + 1)

InitAsync ==
    /\ now = 0
    /\ cache = [u \in Urns |-> NoFile]
    /\ starters = [n \in SchoolNames |-> <<>>]
    /\ chain = FALSE
    /\ pending = [t \in Concurrent |-> Idle]
    /\ enabled \in BOOLEAN
    /\ feature = TRUE
    /\ loaded = {"Thomas Coram Centre"}
    /\ last = NoRequest
    /\ got = NoCall
    /\ gen = NoGen
    /\ writers = [w \in Writers |-> NotWriting]
    /\ csv = RowsOf({"Thomas Coram Centre"})
    /\ loader = Load(NotLoaded, csv, TRUE)

NextAsync ==
    \/ AsyncBegin
    \/ AsyncEnd

SpecAsync == InitAsync /\ [][NextAsync]_vars

(* ------------- SimpleCache.set entered by several threads -------------- *)
\* set(school_urn, starters) up to and including open(cache_path, 'w'), which
\* leaves the file empty; openok: open() does not raise
set_open(w, urn, ss, openok) ==
    /\ ~writers[w].open
    /\ IF ~enabled \/ ~openok
       THEN /\ got' = [op |-> "set", urn |-> urn, flag |-> FALSE,
                       wrote |-> Entry(urn, now, DumpAll(ss))]
            /\ UNCHANGED <<cache, writers>>
       ELSE /\ cache' = [cache EXCEPT ![urn] = Garbage]
            /\ writers' = [writers EXCEPT ![w] = Writing(urn, now, ss)]
            /\ UNCHANGED got
    /\ UNCHANGED <<now, starters, chain, pending, config, last, gen, loader, csv>>

\* set from json.dump to its return: the record goes to the file from the
\* thread's own offset 0, or json.dump raises before a byte is written
set_close(w, wr) ==
    /\ writers[w].open
    /\ writers' = [writers EXCEPT ![w] = NotWriting]
    /\ LET u == writers[w].urn
       IN  cache' = IF wr = "ok"
                    THEN [cache EXCEPT ![u] = Overlay(cache[u], writers[w].data)]
                    ELSE cache
    /\ got' = [op |-> "set", urn |-> writers[w].urn, flag |-> (wr = "ok"),
               wrote |-> writers[w].data]
    /\ UNCHANGED <<now, starters, chain, pending, config, last, gen, loader, csv>>

InitWrite ==
    /\ now = 0
    /\ cache = [u \in Urns |-> NoFile]
    /\ starters = [n \in SchoolNames |-> <<>>]
    /\ chain = FALSE
    /\ pending = [t \in Tasks |-> Idle]
    /\ enabled \in BOOLEAN
    /\ feature = TRUE
    /\ loaded = {"Thomas Coram Centre", "Argyle Primary"}
    /\ last = NoRequest
    /\ got = NoCall
    /\ gen = NoGen
    /\ writers = [w \in Writers |-> NotWriting]
    /\ csv = RowsOf(loaded)
    /\ loader = Load(NotLoaded, csv, TRUE)

\* the lists the threads write: a shorter and a longer one
WriterLists == {Starters(<<RawAgency>>), Starters(<<RawOfsted, RawAgency>>)}
\* the threads write the entry of one school
WriterUrns == {Urn("Thomas Coram Centre")}
SetOpen ==
    \E w \in Writers, u \in WriterUrns, ss \in WriterLists, openok \in BOOLEAN :
        set_open(w, u, ss, openok)
SetClose == \E w \in Writers, wr \in {"ok", "dump_fails"} : set_close(w, wr)

NextWrite ==
    \/ SetOpen
    \/ SetClose
    \/ Tick

SpecWrite == InitWrite /\ [][NextWrite]_vars

(* -------------------- DataLoader, called on its own -------------------- *)
\* what a DataLoader call returned: the revision of the row found (0: None),
\* the names of the schools listed
LoaderReturned(op, arg, raised, school, names) ==
    [op |-> op, arg |-> arg, raised |-> raised, school |-> school, names |-> names]

\* the frame of a DataLoader call
LoaderFrame ==
    UNCHANGED <<now, cache, starters, chain, pending, enabled, feature, last, gen, writers, csv>>

\* DataLoader.get_school_by_name(name)
get_school_by_name(n, readok) ==
    /\ loader' = Load(loader, csv, readok)
    /\ loaded' = Names(loader'.by_name)
    /\ got' = IF LoadRaises(loader, readok)
              THEN LoaderReturned("get_school_by_name", n, TRUE, 0, {})
              ELSE LoaderReturned("get_school_by_name", n, FALSE,
                                  IF n \in SchoolNames THEN loader'.by_name[n] ELSE 0, {})
    /\ LoaderFrame

\* the names that contain the query, whatever the case of the letters
Matches(q) ==
    IF q = "coram" THEN {"Thomas Coram Centre"}
    ELSE IF q = "ar" THEN {"Argyle Primary"}
    ELSE IF q = "a" THEN SchoolNames
    ELSE {}
SearchQueries == {"coram", "ar", "a", "zz"}

\* DataLoader.search_schools(query)
search_schools(q, readok) ==
    /\ loader' = Load(loader, csv, readok)
    /\ loaded' = Names(loader'.by_name)
    /\ got' = IF LoadRaises(loader, readok)
              THEN LoaderReturned("search_schools", q, TRUE, 0, {})
              ELSE LoaderReturned("search_schools", q, FALSE, 0,
                                  Names(loader'.schools) \cap Matches(q))
    /\ LoaderFrame

\* DataLoader.get_statistics(): every count it takes goes through load()
get_statistics(readok) ==
    /\ loader' = Load(loader, csv, readok)
    /\ loaded' = Names(loader'.by_name)
    /\ got' = IF LoadRaises(loader, readok)
              THEN LoaderReturned("get_statistics", "", TRUE, 0, {})
              ELSE LoaderReturned("get_statistics", "", FALSE, 0, Names(loader'.schools))
    /\ LoaderFrame

\* DataLoader.refresh()
refresh(readok) ==
    /\ loader' = Load([NotLoaded EXCEPT !.reads = loader.reads], csv, readok)
    /\ loaded' = Names(loader'.by_name)
    /\ got' = IF ~readok
              THEN LoaderReturned("refresh", "", TRUE, 0, {})
              ELSE LoaderReturned("refresh", "", FALSE, 0, Names(loader'.schools))
    /\ LoaderFrame

\* the data source is edited: rows appear, change or go
CsvEdit ==
    /\ csv' \in Rows \ {csv}
    /\ UNCHANGED <<now, cache, starters, chain, pending, config, last, got, gen,
                   writers, loader>>

InitLoader ==
    /\ now = 0
    /\ cache = [u \in Urns |-> NoFile]
    /\ starters = [n \in SchoolNames |-> <<>>]
    /\ chain = FALSE
    /\ pending = [t \in Tasks |-> Idle]
    /\ enabled = TRUE
    /\ feature = TRUE
    /\ loaded = {}
    /\ last = NoRequest
    /\ got = NoCall
    /\ gen = NoGen
    /\ writers = [w \in Writers |-> NotWriting]
    /\ csv \in Rows
    /\ loader = NotLoaded

\* the inputs of a call that reads the source: whether the read raises; a
\* call that does not read draws one value, and the reads are counted up to
\* MaxReads
ReadInputs(reads) == IF reads THEN (IF loader.reads < MaxReads THEN BOOLEAN ELSE {}) ELSE {TRUE}
GetSchoolByName ==
    \E n \in RequestNames : \E readok \in ReadInputs(~loader.is_loaded) :
        get_school_by_name(n, readok)
SearchSchools ==
    \E q \in SearchQueries : \E readok \in ReadInputs(~loader.is_loaded) :
        search_schools(q, readok)
GetStatistics == \E readok \in ReadInputs(~loader.is_loaded) : get_statistics(readok)
Refresh == \E readok \in ReadInputs(TRUE) : refresh(readok)

NextLoader ==
    \/ GetSchoolByName
    \/ SearchSchools
    \/ GetStatistics
    \/ Refresh
    \/ CsvEdit

SpecLoader == InitLoader /\ [][NextLoader]_vars

(* --------------- requests with their num_starters argument -------------- *)
\* the num_starters a request asks for
Counts == 1..MaxCount

\* a file name that the key of no URN makes
OtherKey == "starters_by_count"

\* a key that depends on the count the request asks for
request_cache_key_with_count(urn, num) == IF num = 1 THEN urn ELSE OtherKey

\* the key of the file a request for num starters of the school with this
\* URN reads and writes: _get_cache_key(school.urn), which is given the URN
\* alone
request_cache_key(urn, num) == urn

\* the file names of the cache directory
CountKeys == Urns \cup {OtherKey}

\* get_school_intelligence with num_starters: the statements from its first
\* to its return; num goes to chain.generate and nowhere else, and the
\* model's reply is what the model makes of it
RunCounted(n, force, num, makeok, reply, wr) ==
    IF ~Resolves(n)
    THEN Kept(Returned("sync", n, force, "NOT_FOUND", "none"))
    ELSE IF ~feature_enabled
    THEN Kept(Returned("sync", n, force, "FEATURE_OFF", "none"))
    ELSE LET cached == IF force THEN NoValue
                       ELSE CacheGet(cache, request_cache_key(Urn(n), num), now)
         IN  IF Hit(cached)
             THEN IF AllValid(cached.starters)
                  THEN [Kept(Returned("sync", n, force, "CACHE_HIT", "none"))
                           EXCEPT !.starters = [starters EXCEPT ![n] = Starters(cached.starters)]]
                  ELSE Kept(Returned("sync", n, force, "RAISED", "none"))
             ELSE IF ~get_chain(chain, makeok)
             THEN Kept(Returned("sync", n, force, "DEGRADED", "none"))
             ELSE LET response == generate(reply)
                  IN  IF response.raised
                      THEN [Kept([Returned("sync", n, force, "DEGRADED", "failed")
                                     EXCEPT !.invocations = chain_invocations(reply)])
                               EXCEPT !.chain = get_chain(chain, makeok)]
                      ELSE [last |-> Done("sync", n, force, reply, wr),
                            starters |-> [starters EXCEPT ![n] = response.conversation_starters],
                            chain |-> get_chain(chain, makeok),
                            sets |-> TRUE,
                            suspended |-> FALSE]

\* the cache directory after the request
CountedCacheAfter(run, n, num, wr) ==
    IF run.sets
    THEN CacheSet(cache, request_cache_key(Urn(n), num), run.starters[n], now, wr)
    ELSE cache

\* what the caller asked for and what it got: the count requested and the
\* number of starters on the school returned (none returned when the request
\* returned None or raised)
Counted(num, run, n) ==
    [op |-> "counted", num |-> num,
     returned |-> IF run.last.path \in {"NOT_FOUND", "RAISED"} THEN 0 ELSE Len(run.starters[n])]

\* get_school_intelligence(school_name, force_refresh, num_starters)
get_school_intelligence_counted(n, force, num, makeok, reply, wr) ==
    /\ LET run == RunCounted(n, force, num, makeok, reply, wr)
       IN  /\ starters' = run.starters
           /\ last' = run.last
           /\ chain' = run.chain
           /\ cache' = CountedCacheAfter(run, n, num, wr)
           /\ got' = Counted(num, run, n)
    /\ UNCHANGED <<now, pending, config, aside, gen>>

InitCount ==
    /\ now = 0
    /\ cache = [k \in CountKeys |-> NoFile]
    /\ starters = [n \in SchoolNames |-> <<>>]
    /\ chain = FALSE
    /\ pending = [t \in Tasks |-> Idle]
    /\ enabled = TRUE
    /\ feature \in BOOLEAN
    /\ loaded = {"Thomas Coram Centre"}
    /\ last = NoRequest
    /\ got = NoCall
    /\ gen = NoGen
    /\ writers = [w \in Writers |-> NotWriting]
    /\ csv = RowsOf({"Thomas Coram Centre"})
    /\ loader = Load(NotLoaded, csv, TRUE)

CountedRequest ==
    \E n \in RequestNames, force \in BOOLEAN, num \in Counts :
        \E makeok \in MakeInputs(n, force) :
            \E reply \in ReplyInputs(n, force, makeok), wr \in WriteInputs :
                get_school_intelligence_counted(n, force, num, makeok, reply, wr)

NextCount ==
    \/ CountedRequest
    \/ Tick

SpecCount == InitCount /\ [][NextCount]_vars

(* ----------- clear_cache over schools with and without a URN ------------ *)
\* the urn cell of a school's row in the data source: the URN, an empty cell,
\* or no such column
UrnCells(n) == {Urn(n), "", Absent}

\* _row_to_school: urn=str(row.get('urn', ''))
row_to_school(row) == [urn |-> IF row.urn = Absent THEN "" ELSE row.urn]

\* school.urn of the record get_school_by_name(n) returns
SchoolUrn(n) == loader.by_name[n].urn

\* the URNs a record can carry, each the name of one cache file
ClearKeys == Urns \cup {""}

\* the school_name arguments of clear_cache: a school's name, a name of no
\* school, the empty name, or none
ClearNames == RequestNames \cup {"", NoneVal}

\* SchoolIntelligenceService.clear_cache(school_name) and what it returns
service_clear_cache(n) ==
    /\ cache' = IF Truthy(n)
                THEN (IF Resolves(n) THEN CacheClear(cache, SchoolUrn(n)) ELSE cache)
                ELSE CacheClear(cache, NoneVal)
    /\ got' = [op |-> "clear_cache", urn |-> n, value |-> NoValue, flag |-> FALSE,
               count |-> IF Truthy(n)
                         THEN (IF Resolves(n) THEN CacheClearCount(cache, SchoolUrn(n)) ELSE 0)
                         ELSE CacheClearCount(cache, NoneVal)]
    /\ UNCHANGED <<now, starters, chain, pending, config, aside, last, gen>>

InitClear ==
    /\ now = 0
    /\ cache = [k \in ClearKeys |-> NoFile]
    /\ starters = [n \in SchoolNames |-> <<>>]
    /\ chain = FALSE
    /\ pending = [t \in Tasks |-> Idle]
    /\ enabled = TRUE
    /\ feature = TRUE
    /\ loaded = SchoolNames
    /\ last = NoRequest
    /\ got = NoCall
    /\ gen = NoGen
    /\ writers = [w \in Writers |-> NotWriting]
    /\ csv \in [SchoolNames -> [urn : UNION {UrnCells(n) : n \in SchoolNames}]]
    /\ \A n \in SchoolNames : csv[n].urn \in UrnCells(n)
    /\ loader = [by_name |-> [n \in SchoolNames |-> row_to_school(csv[n])]]

\* the service stores starters for a school under school.urn
StoreForSchool ==
    \E n \in SchoolNames, ss \in WriterLists, wr \in {"ok", "dump_fails"} :
        cache_set(SchoolUrn(n), ss, wr)
ServiceClearCache == \E n \in ClearNames : service_clear_cache(n)

NextClear ==
    \/ StoreForSchool
    \/ ServiceClearCache

SpecClear == InitClear /\ [][NextClear]_vars

(* ------- get_school_intelligence entered by several threads ------------- *)
\* a thread that has attached its response to the school (line 227) and has
\* not yet called SimpleCache.set (line 230): the request it serves, the
\* response it holds and what it is going to return
Attached(run, n, force) ==
    [busy |-> TRUE, name |-> n, force |-> force,
     response |-> run.starters[n], returns |-> run.last]

\* whether every request that has returned so far ended DONE with a
\* successful model call and a successful cache write
AllSucceeded(r) == got.flag /\ r.path = "DONE" /\ r.model = "ok" /\ r.stored
NoneReturned == [op |-> "requests", urn |-> NoneVal, value |-> NoValue, flag |-> TRUE, count |-> 0]

\* get_school_intelligence in thread t from its first statement up to and
\* including `school.conversation_starters = response.conversation_starters`;
\* a request that does not get there returns
thread_attach(t, n, force, makeok, reply) ==
    /\ ~pending[t].busy
    /\ LET run == RunSync(n, force, makeok, reply, "ok")
       IN  /\ starters' = run.starters
           /\ chain' = run.chain
           /\ IF run.sets
              THEN /\ pending' = [pending EXCEPT ![t] = Attached(run, n, force)]
                   /\ UNCHANGED <<last, got>>
              ELSE /\ last' = run.last
                   /\ got' = [got EXCEPT !.flag = AllSucceeded(run.last)]
                   /\ UNCHANGED pending
    /\ UNCHANGED <<now, cache, config, aside, gen>>

\* get_school_intelligence in thread t from its SimpleCache.set call, taken
\* as one step, to its return
thread_store(t, wr) ==
    /\ pending[t].busy
    /\ pending' = [pending EXCEPT ![t] = Idle]
    /\ cache' = CacheSet(cache, Urn(pending[t].name), pending[t].response, now, wr)
    /\ LET r == [pending[t].returns EXCEPT !.stored = CacheSetResult(wr)]
       IN  /\ last' = r
           /\ got' = [got EXCEPT !.flag = AllSucceeded(r)]
    /\ UNCHANGED <<now, starters, chain, config, aside, gen>>

InitThreads ==
    /\ now = 0
    /\ cache = [u \in Urns |-> NoFile]
    /\ starters = [n \in SchoolNames |-> <<>>]
    /\ chain = FALSE
    /\ pending = [t \in Concurrent |-> Idle]
    /\ enabled = TRUE
    /\ feature = TRUE
    /\ loaded = {"Thomas Coram Centre"}
    /\ last = NoRequest
    /\ got = NoneReturned
    /\ gen = NoGen
    /\ writers = [w \in Writers |-> NotWriting]
    /\ csv = RowsOf({"Thomas Coram Centre"})
    /\ loader = Load(NotLoaded, csv, TRUE)

ThreadAttach ==
    \E t \in DOMAIN pending, n \in RequestNames, force \in BOOLEAN :
        \E makeok \in MakeInputs(n, force) :
            \E reply \in ReplyInputs(n, force, makeok) : thread_attach(t, n, force, makeok, reply)
ThreadStore == \E t \in DOMAIN pending, wr \in WriteInputs : thread_store(t, wr)

NextThreads ==
    \/ ThreadAttach
    \/ ThreadStore

SpecThreads == InitThreads /\ [][NextThreads]_vars

(* ---------------- the dashboard's Generate button ----------------------- *)
\* a click that asks for the cached starters first
ClickRunUnforced(n, makeok, reply, wr) == RunSync(n, FALSE, makeok, reply, wr)

\* the call the click makes: service.get_school_intelligence(
\* school.school_name, force_refresh=True, num_starters=num_starters)
ClickRun(n, makeok, reply, wr) == RunSync(n, TRUE, makeok, reply, wr)

\* `if school_with_starters and school_with_starters.conversation_starters`:
\* st.success, else st.error
ClickReport(run, n) ==
    IF run.last.path # "NOT_FOUND" /\ run.starters[n] # <<>> THEN "success" ELSE "error"

\* display_conversation_starters, the branch of the Generate button, for the
\* school on display
generate_click(n, makeok, reply, wr) ==
    /\ LET run == ClickRun(n, makeok, reply, wr)
       IN  /\ starters' = run.starters
           /\ last' = run.last
           /\ chain' = run.chain
           /\ cache' = CacheAfter(run, n, wr)
           /\ got' = [op |-> "generate_click", urn |-> Urn(n), value |-> NoValue,
                      flag |-> FALSE, count |-> 0, report |-> ClickReport(run, n)]
    /\ UNCHANGED <<now, pending, config, aside, gen>>

InitDashboard ==
    /\ now = 0
    /\ cache = [u \in Urns |-> NoFile]
    /\ starters = [n \in SchoolNames |-> <<>>]
    /\ chain = FALSE
    /\ pending = [t \in Tasks |-> Idle]
    /\ enabled \in BOOLEAN
    /\ feature \in BOOLEAN
    /\ loaded = {"Thomas Coram Centre"}
    /\ last = NoRequest
    /\ got = NoCall
    /\ gen = NoGen
    /\ writers = [w \in Writers |-> NotWriting]
    /\ csv = RowsOf({"Thomas Coram Centre"})
    /\ loader = Load(NotLoaded, csv, TRUE)

\* the school on display is one the DataLoader holds
GenerateClick ==
    \E n \in loaded :
        \E makeok \in MakeInputs(n, TRUE) :
            \E reply \in ReplyInputs(n, TRUE, makeok), wr \in WriteInputs :
                generate_click(n, makeok, reply, wr)

NextDashboard ==
    \/ GenerateClick
    \/ Tick

SpecDashboard == InitDashboard /\ [][NextDashboard]_vars

(* ------------------------------ claims --------------------------------- *)
\* SimpleCache.get would return the entry of this URN: the cache is enabled
\* and the file holds a readable record no older than the TTL
Unexpired(urn) ==
    /\ enabled
    /\ cache[urn].kind = "entry"
    /\ ~Expired(cache[urn], now)

\* C1 as stated: a request with force_refresh=False that finds an unexpired
\* entry for the school's URN (here even one whose items all validate)
\* attaches the cached starters and returns without a model call.
C1_AnyUnexpiredEntryIsHit ==
    [][\A n \in SchoolNames :
          (feature /\ Resolves(n) /\ Unexpired(Urn(n)) /\ AllValid(cache[Urn(n)].starters))
          => \A makeok \in BOOLEAN, reply \in ServiceReplies, wr \in WriteOutcomes :
                get_school_intelligence(n, FALSE, makeok, reply, wr)
                => /\ last'.path = "CACHE_HIT"
                   /\ last'.model = "none"
                   /\ starters'[n] = Starters(cache[Urn(n)].starters)]_vars

\* the model calls a returned request made
Calls(r) == IF r.model = "none" THEN 0 ELSE 1
\* the request that returned last was a call for n with force_refresh=False
\* that missed the cache, and the entry it wrote is in the cache, unexpired
FirstCallStored(n) ==
    /\ feature /\ Resolves(n)
    /\ last.op = "sync" /\ last.name = n /\ ~last.force
    /\ last.path \in {"DONE", "DEGRADED"}
    /\ Unexpired(Urn(n))
    /\ cache[Urn(n)].starters = DumpAll(starters[n])

\* C2 as stated, taken where it is most favourable: with the feature and the
\* cache enabled, when a first call (force_refresh=False) missed the cache,
\* its model call succeeded and its cache write succeeded, a second call made
\* within the TTL of that entry makes the model calls of the two add up to
\* one and returns the same starters as the first.
C2_TwoCallsOneModelCall ==
    [][\A n \in SchoolNames :
          (FirstCallStored(n) /\ last.path = "DONE" /\ last.model = "ok")
          => \A makeok \in BOOLEAN, reply \in ServiceReplies, wr \in WriteOutcomes :
                get_school_intelligence(n, FALSE, makeok, reply, wr)
                => /\ Calls(last) + Calls(last') = 1
                   /\ starters'[n] = starters[n]]_vars

\* C3 as stated: a call with force_refresh=True for a resolvable school with
\* the feature enabled always invokes the model, whatever the cache holds,
\* and overwrites the existing entry with the new result.
C3_ForceAlwaysInvokes ==
    [][\A n \in SchoolNames :
          (feature /\ Resolves(n))
          => \A makeok \in BOOLEAN, reply \in ServiceReplies, wr \in WriteOutcomes :
                get_school_intelligence(n, TRUE, makeok, reply, wr)
                => /\ last'.model # "none"
                   /\ cache[Urn(n)].kind # "nofile"
                      => cache'[Urn(n)] = Entry(Urn(n), now, DumpAll(starters'[n]))]_vars

\* C3, amended: a call with force_refresh=True for a resolvable school with
\* the feature enabled invokes the model, whatever the cache holds, whenever
\* the model client exists or can be constructed; and when the cache is
\* enabled and its write succeeds, the entry of the school is replaced by a
\* fresh one holding the starters that call returned.
C3_ForceBypassesCache ==
    [][\A n \in SchoolNames, makeok \in BOOLEAN :
          (feature /\ Resolves(n) /\ (chain \/ makeok))
          => \A reply \in ServiceReplies, wr \in WriteOutcomes :
                get_school_intelligence(n, TRUE, makeok, reply, wr)
                => /\ last'.model # "none"
                   /\ last'.path = "DONE"
                   /\ starters'[n] = generate(reply).conversation_starters
                   /\ (enabled /\ wr = "ok")
                      => cache'[Urn(n)] = Entry(Urn(n), now, DumpAll(generate(reply).conversation_starters))]_vars

\* a forced refresh has just replaced the entry, while the clock shows that
\* earlier requests had time to fill the cache
C3_Witness ==
    /\ last.op = "sync" /\ last.force /\ last.path = "DONE" /\ last.model = "ok"
    /\ last.stored
    /\ now > 0
    /\ cache[Urn(last.name)] = Entry(Urn(last.name), now, DumpAll(starters[last.name]))
    /\ starters[last.name] # <<>>

\* the request reaches its model call and the call returns starters
GenerationSucceeds(n, force, makeok, reply) ==
    ReachesGeneration(n, force) /\ (chain \/ makeok) /\ ~ParseRaises(reply)
\* the request reaches its model call and the call fails
GenerationFails(n, force, makeok, reply) ==
    ReachesGeneration(n, force) /\ (chain \/ makeok) /\ ParseRaises(reply)

\* C4: after a request that misses the cache or forces a refresh and whose
\* model call succeeds, with the cache enabled and the write succeeding, the
\* file of the school's URN holds one entry whose payload is the dump of the
\* starters attached to the returned school (and gives them back), no other
\* file changes, and the async request writes nothing before its model call
\* has returned.
C4_FreshResultStored ==
    [][/\ \A n \in SchoolNames, force \in BOOLEAN, makeok \in BOOLEAN, reply \in ServiceReplies :
             (enabled /\ GenerationSucceeds(n, force, makeok, reply)
                 /\ get_school_intelligence(n, force, makeok, reply, "ok"))
             => /\ cache'[Urn(n)] = Entry(Urn(n), now, DumpAll(starters'[n]))
                /\ Starters(cache'[Urn(n)].starters) = starters'[n]
                /\ starters'[n] = Starters(StartersField(reply))
                /\ \A u \in Urns \ {Urn(n)} : cache'[u] = cache[u]
       /\ \A t \in Tasks, reply \in ServiceReplies :
             (enabled /\ pending[t].busy /\ ~ParseRaises(reply) /\ async_end(t, reply, "ok"))
             => LET n == pending[t].name
                IN  /\ cache'[Urn(n)] = Entry(Urn(n), now, DumpAll(starters'[n]))
                    /\ Starters(cache'[Urn(n)].starters) = starters'[n]
                    /\ starters'[n] = Starters(StartersField(reply))
                    /\ \A u \in Urns \ {Urn(n)} : cache'[u] = cache[u]
       /\ \A t \in Tasks, n \in RequestNames, force \in BOOLEAN, makeok \in BOOLEAN :
             (async_begin(t, n, force, makeok) /\ pending'[t].busy) => cache' = cache]_vars

\* a request that missed the cache has just stored what its model call returned
C4_Witness ==
    /\ last.path = "DONE" /\ last.model = "ok" /\ ~last.force
    /\ starters[last.name] # <<>>
    /\ cache[Urn(last.name)] = Entry(Urn(last.name), now, DumpAll(starters[last.name]))

\* C5: when the model call of get_school_intelligence fails (chain.invoke
\* raises, or its output does not parse into starters), the request returns
\* the school with an empty starters list and no exception leaves it.
C5_FailedGenerationDegrades ==
    [][\A n \in SchoolNames, force \in BOOLEAN, makeok \in BOOLEAN, reply \in ServiceReplies :
          GenerationFails(n, force, makeok, reply)
          => \A wr \in WriteOutcomes :
                get_school_intelligence(n, force, makeok, reply, wr)
                => /\ starters'[n] = <<>>
                   /\ last'.name = n
                   /\ last'.path \in {"DONE", "DEGRADED"}
                   /\ last'.model = "failed"]_vars

\* a request whose model call failed has returned the school with no starters
C5_Witness ==
    /\ last.op = "sync" /\ last.model = "failed"
    /\ last.path \in {"DONE", "DEGRADED"}
    /\ Resolves(last.name)
    /\ starters[last.name] = <<>>

\* C8 as stated: a request whose model call fails leaves every cache entry
\* unchanged, also an unexpired entry of the same school under a forced
\* refresh.
C8_FailedGenerationKeepsCache ==
    [][\A n \in SchoolNames, force \in BOOLEAN, makeok \in BOOLEAN, reply \in ServiceReplies :
          GenerationFails(n, force, makeok, reply)
          => \A wr \in WriteOutcomes :
                get_school_intelligence(n, force, makeok, reply, wr) => cache' = cache]_vars

\* C6: SimpleCache.get on an entry written at time T0 (cache enabled)
\* returns the entry's payload at every time t with t - T0 <= CACHE_TTL_HOURS
\* and reports no value at every t with t - T0 > CACHE_TTL_HOURS; it reports
\* no value for a URN that has no file.
C6_TtlExpiry ==
    [][\A u \in Urns :
          cache_get(u)
          => /\ (enabled /\ cache[u].kind = "entry" /\ now - cache[u].cached_at <= CACHE_TTL_HOURS)
                => got'.value = Found(cache[u].starters)
             /\ (cache[u].kind = "entry" /\ now - cache[u].cached_at > CACHE_TTL_HOURS)
                => got'.value = NoValue
             /\ cache[u].kind = "nofile" => got'.value = NoValue
             /\ cache' = cache]_vars

\* get has just returned an entry's payload at the last moment of its TTL
C6_Witness ==
    /\ got.op = "get" /\ got.value.found
    /\ Truthy(got.urn)
    /\ cache[got.urn].kind = "entry"
    /\ now - cache[got.urn].cached_at = CACHE_TTL_HOURS
    /\ got.value.starters = cache[got.urn].starters

\* C7 as stated: with the cache disabled, get reports no value, set changes
\* no file and returns False, and every request that reaches the cache check
\* misses and invokes the model.
C7_DisabledCacheAlwaysCalls ==
    [][~enabled
       => /\ \A u \in Urns : CacheGet(cache, u, now) = NoValue
          /\ \A u \in Urns, ss \in StarterLists, wr \in WriteOutcomes :
                CacheSet(cache, u, ss, now, wr) = cache /\ ~CacheSetResult(wr)
          /\ \A n \in SchoolNames, makeok \in BOOLEAN, reply \in ServiceReplies, wr \in WriteOutcomes :
                (feature /\ Resolves(n) /\ get_school_intelligence(n, FALSE, makeok, reply, wr))
                => last'.path # "CACHE_HIT" /\ last'.model # "none" /\ cache' = cache]_vars

\* C7, amended: with the cache disabled, get reports no value, set changes no
\* file and returns False, and every request that reaches the cache check
\* misses, writes nothing, and invokes the model whenever the model client
\* exists or can be constructed.
C7_DisabledCacheAlwaysMisses ==
    [][~enabled
       => /\ \A u \in Urns : CacheGet(cache, u, now) = NoValue
          /\ \A u \in Urns, ss \in StarterLists, wr \in WriteOutcomes :
                CacheSet(cache, u, ss, now, wr) = cache /\ ~CacheSetResult(wr)
          /\ \A n \in SchoolNames, makeok \in BOOLEAN, reply \in ServiceReplies, wr \in WriteOutcomes :
                (feature /\ Resolves(n) /\ get_school_intelligence(n, FALSE, makeok, reply, wr))
                => /\ last'.path \in {"DONE", "DEGRADED"}
                   /\ (chain \/ makeok) => last'.model # "none"
                   /\ cache' = cache]_vars

\* with the cache disabled, a request without force_refresh has called the
\* model although the school's file holds an entry within its TTL
C7_Witness ==
    /\ ~enabled
    /\ last.op = "sync" /\ ~last.force /\ last.path = "DONE" /\ last.model = "ok"
    /\ cache[Urn(last.name)].kind = "entry"
    /\ ~Expired(cache[Urn(last.name)], now)

\* the items of a reply's array that ConversationStarter accepts, in order
ValidItems(ds) == SelectSeq(ds, ValidStarter)

\* C9 as stated: when the reply's conversation_starters array holds items
\* that fail validation next to valid ones, generate / agenerate returns the
\* valid items in their original order.
C9_InvalidItemsDropped ==
    (gen.variant # "none" /\ gen.reply.kind = "json" /\ gen.reply.shape = "array")
    => /\ ~gen.response.raised
       /\ gen.response.conversation_starters = Starters(ValidItems(gen.reply.items))

\* the result of generate / agenerate is a failure: an exception, or the
\* error response of the except branch
FailedResponse(r) == r.raised \/ r.sales_priority = "UNKNOWN"

\* C10 as stated: when the reply has no conversation_starters array, or
\* that value is malformed, generate / agenerate fails instead of returning
\* a result with an empty item list.
C10_MissingArrayFails ==
    (gen.variant # "none" /\ gen.reply.kind = "json" /\ gen.reply.shape \in {"absent", "malformed"})
    => FailedResponse(gen.response)

\* a generate / agenerate call has returned, and its model call had failed:
\* chain.invoke raised, or its output did not parse into starters
GenCallFailed == gen.variant # "none" /\ ParseRaises(gen.reply)

C12_UnknownOnlyOnFailure ==
    gen.variant # "none"
    => /\ ~gen.response.raised
       /\ Len(gen.response.conversation_starters) >= 0
       /\ gen.response.sales_priority \in {"HIGH", "MEDIUM", "LOW", "UNKNOWN"}
       /\ gen.response.sales_priority = "UNKNOWN" => ParseRaises(gen.reply)
       /\ (~ParseRaises(gen.reply) /\ gen.reply.sales_priority = Absent)
          => gen.response.sales_priority = "MEDIUM"

\* C13: a request (sync or async) for a name no stored school has returns
\* None at once: its path is NOT_FOUND, it makes no model call, constructs no
\* model client, suspends nothing, and leaves the cache and every school's
\* starters as they were; no exception leaves it.
C13_UnknownNameStops ==
    [][\A n \in RequestNames \ loaded, force \in BOOLEAN, makeok \in BOOLEAN :
          /\ \A reply \in ServiceReplies, wr \in WriteOutcomes :
                get_school_intelligence(n, force, makeok, reply, wr)
                => /\ last' = Returned("sync", n, force, "NOT_FOUND", "none")
                   /\ UNCHANGED <<cache, chain, starters, pending>>
          /\ \A t \in Tasks :
                async_begin(t, n, force, makeok)
                => /\ last' = Returned("async", n, force, "NOT_FOUND", "none")
                   /\ UNCHANGED <<cache, chain, starters, pending>>]_vars

\* a forced request for an unknown name has returned None while the feature
\* is on and no model client was constructed
C13_Witness ==
    /\ last.path = "NOT_FOUND" /\ last.op = "async" /\ last.force
    /\ last.name \notin loaded
    /\ feature /\ ~chain

\* C14: with the conversation_starters flag off, a request for a stored
\* school, forced or not, returns the school as it was: its path is
\* FEATURE_OFF, it makes no model call, constructs no model client, and the
\* cache and the school's starters are unchanged.
C14_FeatureOffReturnsUnmodified ==
    [][~feature
       => \A n \in loaded, force \in BOOLEAN, makeok \in BOOLEAN,
             reply \in ServiceReplies, wr \in WriteOutcomes :
             get_school_intelligence(n, force, makeok, reply, wr)
             => /\ last' = Returned("sync", n, force, "FEATURE_OFF", "none")
                /\ UNCHANGED <<cache, chain, starters, pending>>]_vars

\* with the flag off, a forced request has returned although the school's
\* cache file holds something
C14_Witness ==
    /\ ~feature
    /\ last.op = "sync" /\ last.path = "FEATURE_OFF" /\ last.force
    /\ cache[Urn(last.name)].kind # "nofile"
    /\ ~chain

\* C15 as stated: when the model call succeeds and the cache write that
\* follows fails, the request returns the school with no starters attached.
C15_WriteFailureDropsResult ==
    [][\A n \in loaded, force \in BOOLEAN, makeok \in BOOLEAN, reply \in ServiceReplies :
          (enabled /\ GenerationSucceeds(n, force, makeok, reply))
          => \A wr \in WriteOutcomes \ {"ok"} :
                get_school_intelligence(n, force, makeok, reply, wr)
                => starters'[n] = <<>>]_vars

\* C15, amended: when the model call succeeds and the cache write that
\* follows fails, the request returns the school with the fresh result
\* attached and raises nothing; the write leaves no fresh entry: the file is
\* as it was, or unreadable when the failure came after it was opened.
C15_WriteFailureKeepsResult ==
    [][\A n \in loaded, force \in BOOLEAN, makeok \in BOOLEAN, reply \in ServiceReplies :
          (enabled /\ GenerationSucceeds(n, force, makeok, reply))
          => \A wr \in WriteOutcomes \ {"ok"} :
                get_school_intelligence(n, force, makeok, reply, wr)
                => /\ starters'[n] = Starters(StartersField(reply))
                   /\ last'.path = "DONE" /\ ~last'.stored
                   /\ cache'[Urn(n)] \in {cache[Urn(n)], Garbage}
                   /\ \A u \in Urns \ {Urn(n)} : cache'[u] = cache[u]]_vars

\* a request has returned starters that its cache write failed to store
C15_Witness ==
    /\ enabled
    /\ last.op = "sync" /\ last.path = "DONE" /\ last.model = "ok" /\ ~last.stored
    /\ starters[last.name] # <<>>
    /\ cache[Urn(last.name)].kind # "entry"

\* C16 as stated: no exception leaves get_school_intelligence or
\* get_school_intelligence_async in any reachable state, also when the cache
\* file of the school is unreadable or holds an item that fails validation.
C16_NoExceptionEscapes ==
    last.path # "RAISED"

C18_SetOverwrites ==
    [][/\ DOMAIN cache = Urns
       /\ \A u \in Urns : cache[u].kind = "entry" => cache[u].school_urn = u
       /\ \A u \in Urns, ss \in StarterLists, wr \in WriteOutcomes :
             cache_set(u, ss, wr)
             => /\ got'.flag => cache'[u] = Entry(u, now, DumpAll(ss))
                /\ got'.flag = (enabled /\ wr = "ok")
                /\ \A v \in Urns \ {u} : cache'[v] = cache[v]]_vars

\* a set has just stored a one-item record while the other URN keeps an
\* older record
C18_Witness ==
    /\ got.op = "set" /\ got.flag
    /\ cache[got.urn].kind = "entry"
    /\ cache[got.urn].cached_at = now
    /\ Len(cache[got.urn].starters) = 1
    /\ \E v \in Urns \ {got.urn} : cache[v].kind = "entry" /\ cache[v].cached_at < now

\* C19 as stated: SimpleCache.clear(id), for the URN of any school (also the
\* empty URN of a record without one), removes the file of that id, returns 1
\* if it existed and 0 otherwise, and leaves every other file unchanged;
\* clear() without an id removes every file and returns how many there
\* were; after clear, get on a removed id reports no value.
C19_ClearRemovesExactly ==
    [][/\ \A u \in Urns \cup {""} :
             cache_clear(u)
             => /\ \A v \in Urns \ {u} : cache'[v] = cache[v]
                /\ u \in Urns => (cache'[u] = NoFile /\ CacheGet(cache', u, now) = NoValue)
                /\ got'.count = IF u \in Urns /\ cache[u].kind # "nofile" THEN 1 ELSE 0
       /\ cache_clear(NoneVal)
          => /\ \A v \in Urns : cache'[v] = NoFile /\ CacheGet(cache', v, now) = NoValue
             /\ got'.count = Cardinality({v \in Urns : cache[v].kind # "nofile"})]_vars

\* what can be rebuilt from a stored record: its items, and the summary and
\* priority if the record holds them
Reconstructed(e) ==
    [conversation_starters |-> Starters(e.starters),
     summary |-> IF "summary" \in DOMAIN e THEN e.summary ELSE NoneVal,
     sales_priority |-> IF "sales_priority" \in DOMAIN e THEN e.sales_priority ELSE NoneVal]

ReturnedValue(r) == [r EXCEPT !.op = "either"]
\* get_school_intelligence_async run from its first statement to its return
\* with nothing else running in between: the part up to the await, then,
\* where the request suspended, the part after it
RunAsync(n, force, makeok, reply, wr) ==
    LET begun == RunAsyncBegin(n, force, makeok)
    IN  IF begun.suspended
        THEN [RunAsyncEnd(n, force, reply, wr) EXCEPT !.chain = begun.chain]
        ELSE begun

\* C21: from the same state (stored schools, cache, flags, chain) and with
\* the same model outcome and write outcome, get_school_intelligence_async
\* run without interruption returns what get_school_intelligence returns,
\* writes the cache where it does and leaves the cache, the school and the
\* chain as it does; and where the cache check finds a usable entry neither
\* variant makes a model call.
C21_AsyncSameAsSync ==
    \A n \in RequestNames, force \in BOOLEAN, makeok \in BOOLEAN :
        \A reply \in ServiceReplies, wr \in WriteOutcomes :
            LET sync == RunSync(n, force, makeok, reply, wr)
                async == RunAsync(n, force, makeok, reply, wr)
                cached == CacheGet(cache, Urn(n), now)
            IN  /\ ReturnedValue(async.last) = ReturnedValue(sync.last)
                /\ async.sets = sync.sets
                /\ CacheAfter(async, n, wr) = CacheAfter(sync, n, wr)
                /\ async.starters = sync.starters
                /\ async.chain = sync.chain
                /\ (Resolves(n) /\ feature /\ ~force /\ cached.found /\ cached.starters # <<>>)
                   => /\ sync.last.model = "none"
                      /\ ~RunAsyncBegin(n, force, makeok).suspended

\* an async request went through its await, generated starters and stored
\* them
C21_Witness ==
    /\ last.op = "async" /\ last.path = "DONE" /\ last.model = "ok" /\ last.stored
    /\ starters[last.name] # <<>>
    /\ cache[Urn(last.name)].kind = "entry"

\* every thread that entered SimpleCache.set has left it
AllWritersFinished == \A w \in Writers : ~writers[w].open

\* C22 as stated: once every concurrent SimpleCache.set call on a school id
\* has finished, and the one that finished last returned True, the entry
\* equals in full the record (payload and timestamp) that this last writer
\* wrote, never a mixture of two writers' data.
C22_LastWriterWins ==
    (AllWritersFinished /\ got.op = "set" /\ got.flag)
    => cache[got.urn] = got.wrote

\* C23 as stated: a SimpleCache.set call leaves the school's file either as
\* the complete new entry or exactly as it was; a set whose write fails
\* part-way leaves no truncated record and does not destroy the entry that
\* was there.
C23_WritesAreAtomic ==
    [][\A u \in Urns, ss \in StarterLists, wr \in WriteOutcomes :
          cache_set(u, ss, wr)
          => \/ cache'[u] = Entry(u, now, DumpAll(ss))
             \/ cache'[u] = cache[u]]_vars

\* a model call is in flight for school n on behalf of task t
InFlight(t, n) == pending[t].busy /\ pending[t].name = n
\* the cache check of a request for n finds nothing to return
MissesCache(n, force) ==
    LET cached == cached_starters(force, Urn(n))
    IN  ~(cached.found /\ cached.starters # <<>>)

\* C24: an async request for a school that misses the cache goes on to its
\* own model call also while another request's model call for the same school
\* is in flight, and each request in flight completes by itself: its return
\* names its school, ends DONE or DEGRADED, and leaves the other requests in
\* flight as they are.
C24_DuplicateGeneration ==
    [][/\ \A t \in DOMAIN pending, n \in loaded, force \in BOOLEAN, makeok \in BOOLEAN :
             (/\ async_begin(t, n, force, makeok)
              /\ feature /\ MissesCache(n, force) /\ get_chain(chain, makeok))
             => /\ pending'[t] = Suspended(n, force)
                /\ \A u \in DOMAIN pending \ {t} : pending'[u] = pending[u]
       /\ \A t \in DOMAIN pending, reply \in ServiceReplies, wr \in WriteOutcomes :
             async_end(t, reply, wr)
             => /\ last'.op = "async" /\ last'.name = pending[t].name
                /\ last'.path \in {"DONE", "DEGRADED"}
                /\ ~pending'[t].busy
                /\ \A u \in DOMAIN pending \ {t} : pending'[u] = pending[u]]_vars

\* two model calls are in flight for one school
C24_Witness ==
    \E t, u \in DOMAIN pending, n \in loaded :
        t # u /\ InFlight(t, n) /\ InFlight(u, n) /\ ~pending[t].force /\ ~pending[u].force

\* a cache directory holding only the file of URN u
OnlyFileOf(u) == [v \in Urns |-> IF v = u THEN cache[u] ELSE NoFile]

\* C25 as stated: get, set and clear(id) called with a school's URN A (also
\* the '' of a record that has none) work on the entry of A alone: get(A)
\* returns what it would return were A's file the only one and changes no
\* file, set(A) and clear(A) leave the file of every other URN B as it was.
C25_OnlyOwnEntryTouched ==
    [][/\ \A a \in Urns :
             cache_get(a)
             => /\ got'.value = CacheGet(OnlyFileOf(a), a, now)
                /\ cache' = cache
       /\ \A a \in Urns, ss \in StarterLists, wr \in WriteOutcomes :
             cache_set(a, ss, wr)
             => \A b \in Urns \ {a} : cache'[b] = cache[b]
       /\ \A a \in ClearArgs \ {NoneVal} :
             cache_clear(a)
             => \A b \in Urns \ {a} : cache'[b] = cache[b]]_vars

\* C26 as stated: every get_school_intelligence request that was made ended
\* in one of the terminal states of the per-request state machine: NOT_FOUND
\* exactly for a name that does not resolve, FEATURE_OFF exactly for a
\* resolved name with the feature off, and otherwise CACHE_HIT without a
\* model call, or DONE or DEGRADED out of GENERATING; no request ends
\* anywhere else.
C26_RequestStateMachine ==
    last.op = "sync"
    => /\ last.path \in {"NOT_FOUND", "FEATURE_OFF", "CACHE_HIT", "DONE", "DEGRADED"}
       /\ (last.path = "NOT_FOUND") <=> ~Resolves(last.name)
       /\ (last.path = "FEATURE_OFF") <=> (Resolves(last.name) /\ ~feature)
       /\ (last.path = "CACHE_HIT") => (last.model = "none" /\ ~last.force)
       /\ (last.path = "DONE") => last.model # "none"
       /\ last.invocations > 0 => last.path \in {"DONE", "DEGRADED"}

\* C27 as stated: a request that ends DEGRADED returns the school carrying no
\* conversation starters, whatever an earlier request attached to it; a
\* request that ends DONE returns the school carrying the result its own
\* model call produced.
C27_DegradedCarriesNoStarters ==
    [][\A n \in loaded, force \in BOOLEAN, makeok \in BOOLEAN :
          \A reply \in ServiceReplies, wr \in WriteOutcomes :
             get_school_intelligence(n, force, makeok, reply, wr)
             => /\ (last'.path = "DEGRADED") => (starters'[n] = <<>>)
                /\ (last'.path = "DONE")
                   => (starters'[n] = generate(reply).conversation_starters)]_vars

C29_StoredRecordUnchanged == [][starters' = starters]_vars

\* C29, amended: a request works on the record the DataLoader holds. One that
\* ends NOT_FOUND, FEATURE_OFF or DEGRADED, or leaves by an exception, leaves
\* the stored records as they are; a cache hit replaces the conversation
\* starters of the stored record of its school by the cached ones and a
\* generation by the result of its model call; the records of the other
\* schools are never touched. The async variant does the same.
C29_OnlyStartersOfOwnRecordReplaced ==
    \A n \in RequestNames, force \in BOOLEAN, makeok \in BOOLEAN :
        \A reply \in ServiceReplies, wr \in WriteOutcomes :
            LET sync == RunSync(n, force, makeok, reply, wr)
                async == RunAsync(n, force, makeok, reply, wr)
                Holds(run) ==
                    /\ \A m \in SchoolNames \ {n} : run.starters[m] = starters[m]
                    /\ run.last.path \in {"NOT_FOUND", "FEATURE_OFF", "DEGRADED", "RAISED"}
                       => run.starters = starters
                    /\ run.last.path = "CACHE_HIT"
                       => run.starters[n] = Starters(CacheGet(cache, Urn(n), now).starters)
                    /\ run.last.path = "DONE"
                       => run.starters[n] = generate(reply).conversation_starters
            IN  Holds(sync) /\ Holds(async)

\* a request has left starters on the stored record of its school
C29_Witness ==
    /\ last.path \in {"CACHE_HIT", "DONE"}
    /\ Resolves(last.name)
    /\ starters[last.name] # <<>>
    /\ \E m \in SchoolNames \ {last.name} : starters[m] = <<>>

\* C30: once a load has completed (also one that found no rows), a lookup, a
\* search or a statistics call reads the data source no more and leaves the
\* loader as it is, whatever the source holds by then; get_school_by_name(n)
\* returns the record the name index holds, so repeated calls return the same
\* record; and refresh() reads the source once more, leaving the list and
\* both indexes as that read found them, or empty when it raised.
C30_LoadOnce ==
    [][/\ \A readok \in BOOLEAN :
             loader.is_loaded
             => /\ \A n \in RequestNames :
                      get_school_by_name(n, readok)
                      => /\ loader' = loader
                         /\ ~got'.raised
                         /\ got'.school = (IF n \in SchoolNames THEN loader.by_name[n] ELSE 0)
                         /\ (got.op = "get_school_by_name" /\ got.arg = n /\ ~got.raised)
                            => got'.school = got.school
                /\ \A q \in SearchQueries :
                      search_schools(q, readok)
                      => loader' = loader /\ got'.names = Names(loader.schools) \cap Matches(q)
                /\ get_statistics(readok)
                   => loader' = loader /\ got'.names = Names(loader.schools)
       /\ \A readok \in BOOLEAN :
             refresh(readok)
             => /\ loader'.reads = loader.reads + 1
                /\ loader'.is_loaded = readok
                /\ loader'.schools = (IF readok THEN csv ELSE NoRows)
                /\ loader'.by_name = (IF readok THEN csv ELSE NoRows)
                /\ loader'.by_urn = (IF readok THEN ByUrn(csv) ELSE ByUrn(NoRows))]_vars

\* a load found no rows, the source has rows by now, and a lookup made since
\* read nothing: the source was read once
C30_Witness ==
    /\ loader.is_loaded /\ loader.schools = NoRows /\ loader.reads = 1
    /\ csv # NoRows
    /\ got.op = "get_school_by_name" /\ ~got.raised /\ got.arg \in Names(csv)
    /\ got.school = 0

\* the requests that constructed no ConversationChain and found none: the
\* service is as SchoolIntelligenceService.__init__ left it
NothingGenerated == last.op = "none" /\ \A t \in DOMAIN pending : ~pending[t].busy

\* what C31 says of one request, run being what it returns and leaves when
\* ConversationChain() can be constructed or not (makeok), and built what it
\* returns and leaves when it can
LazilyConstructed(run, built, makeok) ==
    /\ run.last.path \in {"NOT_FOUND", "FEATURE_OFF", "CACHE_HIT"} => run.chain = chain
    /\ (~chain /\ run.last.path \in {"DONE", "DEGRADED"})
       => /\ run.chain = makeok
          /\ ~makeok => /\ run.last.path = "DEGRADED"
                        /\ run.last.model = "none" /\ run.last.invocations = 0
    /\ chain => (run.chain /\ run = built)

\* C31: the ConversationChain is constructed lazily: the service starts
\* without one; a request that ends NOT_FOUND, FEATURE_OFF or CACHE_HIT
\* constructs none; a request that reaches generation while there is none
\* constructs it, and when the construction fails the request ends DEGRADED
\* without a model call and leaves conversation_chain unset, so that the next
\* such request constructs again; once there is one no request constructs
\* another (the request does not depend on whether a construction would
\* succeed) and no step unsets it.
C31_ChainLazilyConstructed ==
    /\ [](NothingGenerated => ~chain)
    /\ [](\A n \in RequestNames, force \in BOOLEAN, makeok \in BOOLEAN :
            \A reply \in ServiceReplies, wr \in WriteOutcomes :
               /\ LazilyConstructed(RunSync(n, force, makeok, reply, wr),
                                    RunSync(n, force, TRUE, reply, wr), makeok)
               /\ LazilyConstructed(RunAsync(n, force, makeok, reply, wr),
                                    RunAsync(n, force, TRUE, reply, wr), makeok))
    /\ [][chain => chain']_vars

\* a request whose construction of the ConversationChain failed has returned
\* with conversation_chain still unset, and the same request made again
\* constructs it when the construction succeeds
C31_Witness ==
    /\ ~chain
    /\ last.op = "sync" /\ last.path = "DEGRADED" /\ last.model = "none"
    /\ RunSync(last.name, last.force, TRUE, RaiseReply, "ok").chain

\* the request took the branch of `if cached_starters:`: it went on from the
\* cache check to neither _get_chain() nor the model
TookHitBranch(run) == run.last.path \in {"CACHE_HIT", "RAISED"}

\* the file of the URN holds an unexpired record without items
EmptyEntry(urn) == Unexpired(urn) /\ cache[urn].starters = <<>>

\* C32 as stated: a request with force_refresh=False that finds an unexpired
\* entry without items is no cache hit and invokes the model, and a request
\* is a cache hit exactly when the file of the school holds a readable
\* record, no older than the TTL, with at least one item.
C32_EmptyEntryInvokesModel ==
    \A n \in loaded, makeok \in BOOLEAN, reply \in ServiceReplies, wr \in WriteOutcomes :
        LET run == RunSync(n, FALSE, makeok, reply, wr)
            e == cache[Urn(n)]
        IN  feature
            => /\ (e.kind = "entry" /\ ~Expired(e, now) /\ e.starters = <<>>)
                  => (~TookHitBranch(run) /\ run.last.model # "none")
               /\ TookHitBranch(run)
                  <=> (e.kind = "entry" /\ ~Expired(e, now) /\ e.starters # <<>>)

\* C32, amended: an unexpired entry without items is never served as a hit:
\* the request with force_refresh=False goes on to generation as for a
\* missing entry, and invokes the model exactly when the ConversationChain
\* exists or can be constructed; and a request that reaches the cache check
\* takes the cache-hit branch exactly when the cache is enabled and the file
\* holds a readable record, no older than the TTL, with at least one item.
\* The same holds of the async variant.
C32_EmptyEntryIsNoHit ==
    \A n \in loaded, makeok \in BOOLEAN, reply \in ServiceReplies, wr \in WriteOutcomes :
        LET sync == RunSync(n, FALSE, makeok, reply, wr)
            async == RunAsync(n, FALSE, makeok, reply, wr)
            Holds(run) ==
                /\ EmptyEntry(Urn(n))
                   => /\ run.last.path \in {"DONE", "DEGRADED"}
                      /\ (run.last.model # "none") <=> get_chain(chain, makeok)
                      /\ run.last.invocations = IF get_chain(chain, makeok) THEN 1 ELSE 0
                /\ TookHitBranch(run)
                   <=> (Unexpired(Urn(n)) /\ cache[Urn(n)].starters # <<>>)
                /\ TookHitBranch(run) => (run.last.model = "none" /\ run.chain = chain)
        IN  feature => (Holds(sync) /\ Holds(async))

\* a request with force_refresh=False found an unexpired entry without items
\* and did not stop at it: it called the model and attached its starters; its
\* cache write failed on open, so that the entry is as the request found it
C32_Witness ==
    /\ EmptyEntry(Urn(last.name))
    /\ last.op = "sync" /\ ~last.force
    /\ last.path = "DONE" /\ last.model = "ok" /\ last.invocations = 1 /\ ~last.stored
    /\ starters[last.name] # <<>>

\* C33: the requested count is no part of the cache key: what a request
\* returns and leaves behind, the cache directory included, is the same
\* whatever num_starters it asks for (given the same reply of the model); the
\* requests write no file but those the URNs name; and a cache hit returns the
\* items the entry of the URN holds, as many as were stored, whatever the
\* count asked for.
C33_CountNotInCacheKey ==
    /\ \A k \in CountKeys \ Urns : cache[k] = NoFile
    /\ \A n \in RequestNames, force \in BOOLEAN, num \in Counts :
          \A makeok \in BOOLEAN, reply \in ServiceReplies, wr \in WriteOutcomes :
             LET run == RunCounted(n, force, num, makeok, reply, wr)
             IN  /\ \A other \in Counts \ {num} :
                       LET asked == RunCounted(n, force, other, makeok, reply, wr)
                       IN  /\ asked = run
                           /\ CountedCacheAfter(asked, n, other, wr) = CountedCacheAfter(run, n, num, wr)
                 /\ run.last.path = "CACHE_HIT"
                    => /\ Unexpired(Urn(n))
                       /\ run.starters[n] = Starters(cache[Urn(n)].starters)
                       /\ Counted(num, run, n).returned = Len(cache[Urn(n)].starters)
                       /\ ~run.sets

\* a cache hit has returned a number of starters other than the number the
\* request asked for
C33_Witness ==
    /\ got.op = "counted" /\ last.path = "CACHE_HIT"
    /\ got.returned # got.num
    /\ got.returned = Len(starters[last.name])

\* the file of this URN holds something SimpleCache.get reports no value for:
\* bytes it cannot read, or a record older than the TTL
Stale(urn) ==
    \/ cache[urn].kind = "garbage"
    \/ cache[urn].kind = "entry" /\ Expired(cache[urn], now)

\* the files a clear with this argument selects: the one of the URN, or all
Selected(a) == IF a \in Urns THEN {a} ELSE Urns

\* C34: SimpleCache.get changes no stored entry: whatever it returns, every
\* file is after the call as it was, so that an expired or unreadable entry
\* for which get reports no value stays in storage; and a clear removes and
\* counts such an entry like any other: clear() removes every file and
\* returns their number, clear(urn) removes the file of the URN and counts it.
C34_GetLeavesEntries ==
    [][/\ \A u \in Urns :
             cache_get(u)
             => /\ cache' = cache
                /\ Stale(u) => got'.value = NoValue
       /\ \A a \in ClearArgs :
             cache_clear(a)
             => /\ \A u \in Selected(a) : cache'[u] = NoFile
                /\ got'.count = Cardinality({u \in Selected(a) : cache[u].kind # "nofile"})
                /\ \A u \in Selected(a) : Stale(u) => got'.count >= 1]_vars

\* with the cache enabled, get has reported no value for an entry older than
\* the TTL, and the entry is still in storage
C34_Witness ==
    /\ enabled
    /\ got.op = "get" /\ got.value = NoValue
    /\ got.urn \in Urns
    /\ cache[got.urn].kind = "entry" /\ Expired(cache[got.urn], now)

\* C35 as stated: clear_cache(name) with a name of no school removes no file
\* and returns 0; every file is removed only by clear_cache without a name;
\* and clear_cache(name) for a school removes the file of that school's URN
\* alone, whatever the URN, the empty one included.
C35_ClearCachePerSchool ==
    [][\A n \in ClearNames :
          service_clear_cache(n)
          => /\ (n # NoneVal /\ ~Resolves(n)) => (cache' = cache /\ got'.count = 0)
             /\ Resolves(n)
                => /\ \A k \in ClearKeys \ {SchoolUrn(n)} : cache'[k] = cache[k]
                   /\ cache'[SchoolUrn(n)] = NoFile
                   /\ got'.count = IF cache[SchoolUrn(n)].kind # "nofile" THEN 1 ELSE 0
             /\ n = NoneVal
                => /\ \A k \in ClearKeys : cache'[k] = NoFile
                   /\ got'.count = Cardinality({k \in ClearKeys : cache[k].kind # "nofile"})]_vars

\* C36 as stated: whenever every request for the school made so far has
\* returned, each after a successful model call and a successful cache write,
\* the starters attached to the school are the payload of the school's cache
\* entry, however the threads serving the requests were interleaved.
C36_SchoolMatchesCache ==
    \A n \in loaded :
        (/\ \A t \in DOMAIN pending : ~pending[t].busy
         /\ last.op = "sync" /\ got.flag)
        => /\ cache[Urn(n)].kind = "entry"
           /\ cache[Urn(n)].starters = DumpAll(starters[n])

\* what the click reports is an error exactly when the school returned is
\* None or carries no starters
ReportsFailure(run, n) ==
    (ClickReport(run, n) = "error") <=> (run.last.path = "NOT_FOUND" \/ run.starters[n] = <<>>)

\* C37 as stated: every click on Generate calls get_school_intelligence with
\* force_refresh=True and invokes the model, also when an unexpired cache
\* entry exists, and reports failure exactly when the returned school is
\* None or carries no starters.
C37_EveryClickInvokesModel ==
    /\ got.op = "generate_click" => (last.op = "sync" /\ last.force)
    /\ \A n \in loaded, makeok \in BOOLEAN, reply \in ServiceReplies, wr \in WriteOutcomes :
          LET run == ClickRun(n, makeok, reply, wr)
          IN  /\ run.last.force
              /\ run.last.model # "none" /\ run.last.invocations = 1
              /\ ReportsFailure(run, n)

\* C37, amended: every click on Generate calls get_school_intelligence with
\* force_refresh=True: the call never stops at the cache, whatever entry
\* exists, and invokes the model exactly when the feature is enabled and the
\* ConversationChain exists or can be constructed; and the click reports
\* failure exactly when the returned school is None or carries no starters.
C37_ClickForcesRefresh ==
    /\ got.op = "generate_click"
       => /\ last.op = "sync" /\ last.force /\ last.path \notin {"CACHE_HIT", "RAISED"}
          /\ (got.report = "error") <=> (last.path = "NOT_FOUND" \/ starters[last.name] = <<>>)
    /\ \A n \in RequestNames, makeok \in BOOLEAN, reply \in ServiceReplies, wr \in WriteOutcomes :
          LET run == ClickRun(n, makeok, reply, wr)
          IN  /\ run.last.force
              /\ run.last.path \notin {"CACHE_HIT", "RAISED"}
              /\ (run.last.model # "none" /\ run.last.invocations = 1)
                 <=> (Resolves(n) /\ feature /\ get_chain(chain, makeok))
              /\ ReportsFailure(run, n)

\* a click has called the model and reported success while the cache held an
\* unexpired entry with items, written before the click and left as it was
\* because the click's own cache write failed on open
C37_Witness ==
    /\ got.op = "generate_click" /\ got.report = "success"
    /\ last.path = "DONE" /\ last.model = "ok" /\ ~last.stored
    /\ Unexpired(Urn(last.name))
    /\ cache[Urn(last.name)].starters # <<>>
    /\ cache[Urn(last.name)].cached_at < now

====
